---- MODULE Spec2Model ----
(***************************************************************************)
(* Alert pipeline of the Cognitive Streetlight dashboard.                  *)
(*                                                                         *)
(* The shared store (SmartCityContext) owns the alert list.  Three         *)
(* components subscribe to the /events stream and may add alerts           *)
(* (EmergencyAlerts, its older closure-based variant, Dashboard); the      *)
(* AlertCard buttons issue dispatch requests and update alerts when the    *)
(* response arrives.  The Demo page keeps a private alert list.            *)
(*                                                                         *)
(* React state is modelled by two copies: the store value (every queued    *)
(* updater applied, in order) and the value of the last commit, which is   *)
(* what refs, effect closures and card props read until the next commit.   *)
(***************************************************************************)
EXTENDS Integers, Sequences, FiniteSets, TLC

VARIABLES
    now,            \* Date.now(), in milliseconds since start
    alerts,         \* SmartCityContext: const [alerts, setAlerts]
    view,           \* alerts as of the last commit (alertsRef.current, closures, card props)
    processing,     \* ids of the AlertCards whose processing state is true
    viewProcessing, \* processing as of the last commit (the disabled attribute)
    pending,        \* dispatch requests in flight (awaiting fetch)
    created,        \* number of alerts created so far (creation ordinal source)
    clicks,         \* number of dispatch clicks so far
    last,           \* the handler that ran last and what it did
    route,          \* react-router location: "/" (dashboard pages) or "/demo"
    isRunning,        \* Demo: const [isRunning, setIsRunning]
    accidentDetected, \* Demo: const [accidentDetected, setAccidentDetected]
    currentFrame,     \* Demo: const [currentFrame, setCurrentFrame]
    videoSrc,         \* Demo: const [videoSrc, setVideoSrc]
    demoAlerts,       \* Demo: const [alerts, setAlerts]
    detectionConfidence, \* Demo: const [detectionConfidence, setDetectionConfidence]
    demoStreetlights,    \* Demo: const [streetlights, setStreetlights]
    demoEnergySavings,   \* Demo: const [energySavings, setEnergySavings]
    demoSub,          \* Demo: the EventSource of the running effect and its closure
    streetlights,     \* SmartCityContext: const [streetlights, setStreetlights]
    metrics,          \* SmartCityContext: const [metrics, setMetrics]
    energySavings,    \* SmartCityContext: const [energySavings, setEnergySavings]
    powerHistory,     \* Dashboard: const [powerHistory, setPowerHistory]
    savingsHistory,   \* Dashboard: const [savingsHistory, setSavingsHistory]
    occupancyHistory, \* Dashboard: const [occupancyHistory, setOccupancyHistory]
    aiLatency,        \* Dashboard: const [aiLatency, setAiLatency]
    dashboardSource,  \* Dashboard: the EventSource of its effect, "open" or "closed"
    alertsSource,     \* EmergencyAlerts: the EventSource of its effect
    metricsLog,       \* every metrics value the Dashboard ingested, with its time label
    socket,           \* WebSocketService: private socket (an index into sockets, or NoSocket)
    sockets,          \* every socket io() has created, with its state and inbound queue
    listeners,        \* WebSocketService: private listeners, event -> Set of callbacks (in insertion order)
    subscribed,       \* callbacks added by on() and not removed since (off, disconnect)
    received,         \* per callback, the events it was invoked with, in order
    published         \* number of events the server has emitted

alertVars == <<alerts, view, processing, viewProcessing, pending, created, clicks>>
demoVars == <<isRunning, accidentDetected, currentFrame, videoSrc, demoAlerts,
              detectionConfidence, demoStreetlights, demoEnergySavings, demoSub>>
storeVars == <<streetlights, metrics, energySavings>>
historyVars == <<powerHistory, savingsHistory, occupancyHistory>>
telemetryVars == <<storeVars, historyVars, aiLatency, dashboardSource, alertsSource,
                   metricsLog>>
socketVars == <<socket, sockets, listeners, subscribed, received, published>>
vars == <<now, alertVars, last, route, demoVars, telemetryVars, socketVars>>

----------------------------------------------------------------------------
(* Bounds of the exploration *)

MaxClock == 1
MaxAlerts == 2
MaxDispatch == 3
MaxInFlight == 2
WindowAlerts == 22
WindowDispatch == 1
MaxFrame == 12
MaxSockets == 2
MaxPublished == 2
MailboxDepth == 1
MaxPushes == 52
FreePushes == 2
TelemetryAlerts == 1
DemoFrames == 2

(* Program constants *)

AlertCap == 20
DemoAlertCap == 10
ConfidenceThreshold == 90
MaxSeed == 3
Undefined == -1
HistoryCap == 20
OccupancyCap == 50
MsPerSecond == 1000
SecondsPerDay == 86400
InitialStoreSavings == 73
InitialLatency == 47
MinLatency == 30
MaxLatency == 59

----------------------------------------------------------------------------
(* Stream messages, as parsed: a field the message does not carry is     *)
(* undefined.  parses is FALSE for a payload JSON.parse rejects.          *)

NoPrediction == "undefined"

\* SmartCityProvider: useState<SmartCityState['metrics']>({...})
InitialMetrics ==
    [active_power |-> 0, baseline_100 |-> 0, baseline_70 |-> 0,
     savings_vs_100 |-> 0, savings_vs_70 |-> 0, brightness_dist |-> <<>>,
     occupancy |-> 0, pedestrians |-> 0, vehicles |-> 0, sim_time |-> 0]

Msg(prediction, confidence) ==
    [parses |-> TRUE, prediction |-> prediction, confidence |-> confidence,
     hasStreetlights |-> FALSE, streetlights |-> <<>>,
     hasMetrics |-> FALSE, metrics |-> InitialMetrics,
     energy_savings |-> Undefined]

WithStreetlights(msg, lights) ==
    [msg EXCEPT !.hasStreetlights = TRUE, !.streetlights = lights]

WithMetrics(msg, m) == [msg EXCEPT !.hasMetrics = TRUE, !.metrics = m]

WithEnergySavings(msg, savings) == [msg EXCEPT !.energy_savings = savings]

Malformed == [Msg(NoPrediction, Undefined) EXCEPT !.parses = FALSE]

Msgs ==
    { Msg("Accident", 95), Msg("Accident", 90), Msg("Accident", Undefined),
      Msg("Normal", 95), Msg(NoPrediction, Undefined) }

\* Mutant of Qualifies: the threshold itself qualifies.
QualifiesAtLeast(msg) ==
    msg.prediction = "Accident" /\ msg.confidence # Undefined
        /\ msg.confidence >= ConfidenceThreshold

\* data.prediction === 'Accident' && data.confidence > 90
Qualifies(msg) ==
    msg.prediction = "Accident" /\ msg.confidence # Undefined
        /\ msg.confidence > ConfidenceThreshold

\* Math.floor(Math.random() * 3) + 1
Seeds == 1..MaxSeed

----------------------------------------------------------------------------
(* Sequence helpers *)

Take(s, n) == SubSeq(s, 1, IF Len(s) < n THEN Len(s) ELSE n)

RemoveAt(s, k) == SubSeq(s, 1, k - 1) \o SubSeq(s, k + 1, Len(s))

----------------------------------------------------------------------------
(* SmartCityContext *)

\* Mutant of AddAlert: slice(-20), the idiom of the history buffers.
AddAlertSliceTail(prev, newAlert) ==
    LET all == <<newAlert>> \o prev
    IN  SubSeq(all, IF Len(all) > AlertCap THEN Len(all) - AlertCap + 1 ELSE 1,
               Len(all))

\* setAlerts(prev => [newAlert, ...prev].slice(0, 20))
AddAlert(prev, newAlert) == Take(<<newAlert>> \o prev, AlertCap)

\* { ...alert, ...updates }
Merge(alert, updates) ==
    [f \in DOMAIN alert |-> IF f \in DOMAIN updates THEN updates[f] ELSE alert[f]]

\* Mutant of UpdateAlert: filter then map, which drops the other alerts.
UpdateAlertFilter(prev, alertId, updates) ==
    LET hit == { i \in 1..Len(prev) : prev[i].id = alertId }
        Pick[i \in 0..Len(prev)] ==
            IF i = 0 THEN <<>>
            ELSE IF i \in hit THEN Append(Pick[i - 1], Merge(prev[i], updates))
                              ELSE Pick[i - 1]
    IN  Pick[Len(prev)]

\* setAlerts(prev => prev.map(alert => alert.id === alertId ? {...alert, ...updates} : alert))
UpdateAlert(prev, alertId, updates) ==
    [i \in 1..Len(prev) |->
        IF prev[i].id = alertId THEN Merge(prev[i], updates) ELSE prev[i]]

\* Mutant of SetStreetlights: the snapshot is merged by id, so a light the
\* snapshot does not list stays.
SetStreetlightsMerge(prev, lights) ==
    lights \o SelectSeq(prev, LAMBDA p : \A i \in 1..Len(lights) : lights[i].id # p.id)

\* setStreetlights: (lights) => setStreetlights(lights)
SetStreetlights(prev, lights) == lights

----------------------------------------------------------------------------
(* Dashboard: the chart histories *)

\* new Date().toLocaleTimeString(): the second of the day.
TimeLabel(t) == (t \div MsPerSecond) % SecondsPerDay

\* Mutant of SavingsPoint: the two percentages are swapped.
SavingsPointSwapped(m, timeStr) ==
    [time |-> timeStr, sav100 |-> m.savings_vs_70, sav70 |-> m.savings_vs_100]

\* Mutant of PushLast: slice(0, cap), the idiom of the alert list.
PushKeepFirst(prev, point, cap) == Take(Append(prev, point), cap)

\* [...prev, point].slice(-cap)
PushLast(prev, point, cap) ==
    LET all == Append(prev, point)
    IN  SubSeq(all, IF Len(all) > cap THEN Len(all) - cap + 1 ELSE 1, Len(all))

PowerPoint(m, timeStr) ==
    [time |-> timeStr, active |-> m.active_power, base100 |-> m.baseline_100,
     base70 |-> m.baseline_70]

SavingsPoint(m, timeStr) ==
    [time |-> timeStr, sav100 |-> m.savings_vs_100, sav70 |-> m.savings_vs_70]

RECURSIVE Sum(_)
Sum(s) == IF s = <<>> THEN 0 ELSE Head(s) + Sum(Tail(s))

\* brightness_dist.reduce((a, b) => a + b, 0) / brightness_dist.length, or 0
\* for an empty distribution; kept as a fraction.
AvgBrightness(dist) ==
    IF Len(dist) > 0 THEN [num |-> Sum(dist), den |-> Len(dist)]
                     ELSE [num |-> 0, den |-> 1]

OccupancyPoint(m) ==
    [x |-> AvgBrightness(m.brightness_dist), y |-> m.occupancy]

\* 30 + Math.random() * 30
Latencies == {MinLatency, MaxLatency}

----------------------------------------------------------------------------
(* Alert literals of the three subscribers.  seq is the creation ordinal: *)
(* it is read by no handler and only names the alert in the properties.   *)

AccidentAlert(seed) ==
    [id |-> now, type |-> "accident", severity |-> "critical",
     status |-> "active", responders |-> seed, seq |-> created + 1]

DashboardAlert ==
    [id |-> now, type |-> "Accident Detected", severity |-> "high",
     status |-> "active", responders |-> Undefined, seq |-> created + 1]

\* alertsRef.current.some(a => a.type === 'accident' && a.status === 'active')
HasActiveAccident(list) ==
    \E i \in 1..Len(list) : list[i].type = "accident" /\ list[i].status = "active"

\* alerts.some(a => a.type === 'Accident Detected')
HasAccidentDetected(list) ==
    \E i \in 1..Len(list) : list[i].type = "Accident Detected"

\* The alerts the closure-based EmergencyAlerts captured when its effect ran:
\* the effect depends on [addAlert] only, so it keeps the list of the first render.
LegacyClosureAlerts == <<>>

Did(op, id, arg) == [op |-> op, id |-> id, arg |-> arg]

----------------------------------------------------------------------------
(* Demo page: its state lives in the component and is created at mount. *)

InitialStreetlights ==
    << [id |-> "L1", brightness |-> 70, status |-> "active"],
       [id |-> "L2", brightness |-> 70, status |-> "active"],
       [id |-> "L3", brightness |-> 70, status |-> "active"],
       [id |-> "L4", brightness |-> 70, status |-> "active"] >>

InitialConfidence == 45
InitialEnergySavings == 73

NoSubscription == [open |-> FALSE, accidentDetected |-> FALSE]

NoVideo == [path |-> "", t |-> Undefined]

\* The useState initial values of Demo.
DemoMount ==
    /\ isRunning = FALSE
    /\ accidentDetected = FALSE
    /\ currentFrame = 0
    /\ videoSrc = NoVideo
    /\ demoAlerts = <<>>
    /\ detectionConfidence = InitialConfidence
    /\ demoStreetlights = InitialStreetlights
    /\ demoEnergySavings = InitialEnergySavings
    /\ demoSub = NoSubscription

----------------------------------------------------------------------------
(* WebSocketService: one listener registry fed by the sockets io() made.  *)
(* The server is outside the repository: it emits an event either to      *)
(* every connected client or to the clients that joined the room.        *)

NoSocket == 0

\* The events connect() forwards from the socket to notifyListeners.
ForwardedEvents ==
    {"accident_detected", "emergency_alert", "streetlight_update",
     "detection_update", "status"}

\* The events and the subscribers of the exploration.  "b" throws after it
\* has seen the event; "once" calls off(event, itself) when it is invoked.
EventNames == {"accident_detected", "status"}
Callbacks == {"a", "b", "once"}
Throws(cb) == cb = "b"
RemovesItself(cb) == cb = "once"
Audiences == {"all", "room"}

\* The (event, callback) pairs the components register.
Subscriptions ==
    { <<"accident_detected", "a">>, <<"accident_detected", "b">>,
      <<"accident_detected", "once">>, <<"status", "a">> }

\* The callbacks of a Set, which JavaScript keeps in insertion order.
Members(set) == { set[i] : i \in 1..Len(set) }

\* this.listeners.get(event)!.add(callback)
on(registry, event, cb) ==
    [registry EXCEPT ![event] = IF cb \in Members(@) THEN @ ELSE Append(@, cb)]

\* Mutant of off: this.listeners.delete(event).
offDeletesEvent(registry, event, cb) == [registry EXCEPT ![event] = <<>>]

\* eventListeners.delete(callback)
off(registry, event, cb) ==
    [registry EXCEPT ![event] = SelectSeq(@, LAMBDA c : c # cb)]

\* this.listeners.clear()
NoListeners == [e \in EventNames |-> <<>>]

NoSubscribers == [e \in EventNames |-> {}]

\* Mutant of Invoked: forEach(callback => callback(data)) without the try
\* block, so the first callback that throws ends the iteration.
InvokedUntilThrow(set) ==
    LET throwing == { i \in 1..Len(set) : Throws(set[i]) }
        stop == IF throwing = {} THEN Len(set)
                ELSE CHOOSE i \in throwing : \A j \in throwing : i <= j
    IN  { set[i] : i \in 1..stop }

\* eventListeners.forEach((callback) => { try { callback(data) } catch ... }):
\* the callbacks that are called.
Invoked(set) == Members(set)

NewSocket == [state |-> "connecting", joined |-> FALSE, inbox |-> <<>>]

\* this.socket?.connected
Connected(current, all) ==
    current # NoSocket /\ all[current].state = "connected"

SocketInit ==
    /\ socket = NoSocket
    /\ sockets = <<>>
    /\ listeners = NoListeners
    /\ subscribed = NoSubscribers
    /\ received = [cb \in Callbacks |-> <<>>]
    /\ published = 0

\* connect(): returns at once when the current socket is connected, else
\* makes a socket and registers the handlers on it.
Connect ==
    /\ IF Connected(socket, sockets)
         THEN /\ UNCHANGED <<socket, sockets>>
              /\ last' = Did("connect", Undefined, "")
         ELSE /\ Len(sockets) < MaxSockets
              /\ sockets' = Append(sockets, NewSocket)
              /\ socket' = Len(sockets) + 1
              /\ last' = Did("connect", Undefined, "")
    /\ UNCHANGED <<now, alertVars, route, demoVars, telemetryVars, listeners,
                   subscribed, received, published>>

\* The socket's 'connect' event: this.emit('subscribe', { room: 'general' }),
\* which sends through this.socket if that one is connected.
OnConnect(i) ==
    /\ i \in 1..Len(sockets)
    /\ sockets[i].state = "connecting"
    /\ LET up == [sockets EXCEPT ![i].state = "connected"]
       IN  sockets' = IF Connected(socket, up)
                        THEN [up EXCEPT ![socket].joined = TRUE]
                        ELSE up
    /\ last' = Did("onConnect", Undefined, "")
    /\ UNCHANGED <<now, alertVars, route, demoVars, telemetryVars, socket, listeners,
                   subscribed, received, published>>

\* disconnect()
Disconnect ==
    /\ IF socket # NoSocket
         THEN /\ sockets' = [sockets EXCEPT ![socket].state = "closed",
                                            ![socket].inbox = <<>>]
              /\ socket' = NoSocket
         ELSE UNCHANGED <<socket, sockets>>
    /\ listeners' = NoListeners
    /\ subscribed' = NoSubscribers
    /\ last' = Did("disconnect", Undefined, "")
    /\ UNCHANGED <<now, alertVars, route, demoVars, telemetryVars, received, published>>

\* on(event, callback)
CallOn(event, cb) ==
    /\ listeners' = on(listeners, event, cb)
    /\ subscribed' = [subscribed EXCEPT ![event] = @ \cup {cb}]
    /\ last' = Did("on", Undefined, "")
    /\ UNCHANGED <<now, alertVars, route, demoVars, telemetryVars, socket, sockets,
                   received, published>>

\* off(event, callback)
CallOff(event, cb) ==
    /\ listeners' = off(listeners, event, cb)
    /\ subscribed' = [subscribed EXCEPT ![event] = @ \ {cb}]
    /\ last' = Did("off", Undefined, "")
    /\ UNCHANGED <<now, alertVars, route, demoVars, telemetryVars, socket, sockets,
                   received, published>>

\* The server emits its next event.
Publish(event, audience) ==
    /\ published < MaxPublished
    /\ published' = published + 1
    /\ sockets' =
          [i \in 1..Len(sockets) |->
              IF sockets[i].state = "connected"
                    /\ (audience = "all" \/ sockets[i].joined)
                THEN [sockets[i] EXCEPT
                        !.inbox = Append(@, [type |-> event, n |-> published'])]
                ELSE sockets[i]]
    /\ last' = Did("publish", Undefined, "")
    /\ UNCHANGED <<now, alertVars, route, demoVars, telemetryVars, socket, listeners,
                   subscribed, received>>

\* notifyListeners(event, data): every callback of the event's Set is
\* called inside try/catch; a callback that removes itself is gone afterwards.
notifyListeners(registry, ev) ==
    LET set == registry[ev.type]
    IN  [registry EXCEPT
            ![ev.type] = SelectSeq(set, LAMBDA c : ~(c \in Invoked(set) /\ RemovesItself(c)))]

\* A socket hands its next event to the handler connect() registered.
Deliver(i) ==
    /\ i \in 1..Len(sockets)
    /\ sockets[i].state = "connected"
    /\ sockets[i].inbox # <<>>
    /\ LET ev == Head(sockets[i].inbox) IN
        /\ sockets' = [sockets EXCEPT ![i].inbox = Tail(@)]
        /\ IF ev.type \in ForwardedEvents
             THEN /\ received' =
                        [cb \in Callbacks |->
                            IF cb \in Invoked(listeners[ev.type])
                              THEN Append(received[cb], ev) ELSE received[cb]]
                  /\ listeners' = notifyListeners(listeners, ev)
                  /\ subscribed' =
                        [subscribed EXCEPT
                            ![ev.type] = { cb \in @ : ~RemovesItself(cb) }]
             ELSE UNCHANGED <<received, listeners, subscribed>>
        /\ last' = Did("deliver", ev.n, ev.type)
    /\ UNCHANGED <<now, alertVars, route, demoVars, telemetryVars, socket, published>>

Init ==
    /\ now = 0
    /\ alerts = <<>>
    /\ view = <<>>
    /\ processing = {}
    /\ viewProcessing = {}
    /\ pending = <<>>
    /\ created = 0
    /\ clicks = 0
    /\ last = Did("init", Undefined, "")
    /\ route = "/"
    /\ DemoMount
    /\ streetlights = <<>>
    /\ metrics = InitialMetrics
    /\ energySavings = InitialStoreSavings
    /\ powerHistory = <<>>
    /\ savingsHistory = <<>>
    /\ occupancyHistory = <<>>
    /\ aiLatency = InitialLatency
    /\ dashboardSource = "open"
    /\ alertsSource = "open"
    /\ metricsLog = <<>>
    /\ SocketInit

\* Time passes.
ClockTick ==
    /\ now < MaxClock
    /\ now' = now + 1
    /\ UNCHANGED <<alertVars, last, route, demoVars, telemetryVars, socketVars>>

\* The Dashboard effect lists alerts in its dependencies: a commit that
\* changes alerts closes its EventSource and opens a new one.
DashboardEffect(newView) ==
    dashboardSource' = IF newView # view THEN "open" ELSE dashboardSource

\* What JSON.parse throwing does to a subscriber: EmergencyAlerts catches and
\* warns, Dashboard has no try block and the exception leaves the handler.
ParseFailure(op) == IF op = "msgDash" THEN "threw" ELSE "dropped"

\* A subscriber's onmessage: JSON.parse, the qualifying test, the dedup test
\* against `seen`, and addAlert(literal).
Ingest(op, msg, seen, literal, limit) ==
    /\ route = "/"
    /\ created < limit
    /\ IF msg.parses /\ Qualifies(msg) /\ ~seen
         THEN /\ alerts' = AddAlert(alerts, literal)
              /\ created' = created + 1
              /\ last' = Did(op, literal.id, "added")
         ELSE /\ UNCHANGED <<alerts, created>>
              /\ last' = Did(op, Undefined,
                             IF ~msg.parses THEN ParseFailure(op)
                             ELSE IF Qualifies(msg) THEN "suppressed" ELSE "ignored")
    /\ UNCHANGED <<now, socketVars, view, processing, viewProcessing, pending,
                   clicks, route, demoVars>>

\* EmergencyAlerts eventSource.onmessage (alertsRef version)
OnMessageEA(msg, seed, limit) ==
    /\ alertsSource = "open"
    /\ Ingest("msgEA", msg, HasActiveAccident(view), AccidentAlert(seed), limit)
    /\ UNCHANGED telemetryVars

\* EmergencyAlerts eventSource.onmessage (closure version)
OnMessageLegacy(msg, seed, limit) ==
    /\ alertsSource = "open"
    /\ Ingest("msgLegacy", msg, HasActiveAccident(LegacyClosureAlerts),
              AccidentAlert(seed), limit)
    /\ UNCHANGED telemetryVars

\* Mutant of CarriesMetrics: the metrics branch runs for every message.
CarriesMetricsAlways(msg) == TRUE

\* if (data.metrics)
CarriesMetrics(msg) == msg.hasMetrics

\* Dashboard eventSource.onmessage: the streetlights branch, the metrics
\* branch, the accident branch and setAiLatency.
DashboardTelemetry(msg) ==
    IF ~msg.parses
      THEN UNCHANGED <<storeVars, historyVars, aiLatency, metricsLog>>
      ELSE /\ streetlights' =
                IF msg.hasStreetlights THEN SetStreetlights(streetlights, msg.streetlights)
                                       ELSE streetlights
           /\ IF CarriesMetrics(msg)
                THEN LET m == msg.metrics
                         timeStr == TimeLabel(now)
                     IN  /\ metrics' = m
                         /\ energySavings' = m.savings_vs_100
                         /\ powerHistory' =
                               PushLast(powerHistory, PowerPoint(m, timeStr), HistoryCap)
                         /\ savingsHistory' =
                               PushLast(savingsHistory, SavingsPoint(m, timeStr), HistoryCap)
                         /\ occupancyHistory' =
                               PushLast(occupancyHistory, OccupancyPoint(m), OccupancyCap)
                         /\ metricsLog' = Append(metricsLog, [metrics |-> m, time |-> timeStr])
                ELSE UNCHANGED <<metrics, energySavings, historyVars, metricsLog>>
           /\ aiLatency' \in Latencies

OnMessageDashboard(msg, limit) ==
    /\ dashboardSource = "open"
    /\ Ingest("msgDash", msg, HasAccidentDetected(view), DashboardAlert, limit)
    /\ DashboardTelemetry(msg)
    /\ UNCHANGED <<dashboardSource, alertsSource>>

\* eventSource.onerror of Dashboard: console.error and eventSource.close().
OnErrorDashboard ==
    /\ route = "/"
    /\ dashboardSource = "open"
    /\ dashboardSource' = "closed"
    /\ last' = Did("errorDash", Undefined, "")
    /\ UNCHANGED <<now, socketVars, alertVars, route, demoVars, storeVars, historyVars,
                   aiLatency, alertsSource, metricsLog>>

\* eventSource.onerror of EmergencyAlerts.
OnErrorEA ==
    /\ route = "/"
    /\ alertsSource = "open"
    /\ alertsSource' = "closed"
    /\ last' = Did("errorEA", Undefined, "")
    /\ UNCHANGED <<now, socketVars, alertVars, route, demoVars, storeVars, historyVars,
                   aiLatency, dashboardSource, metricsLog>>

\* React commits: the ref effect, the effect closures and the card props
\* now see the store value.
Render ==
    /\ view # alerts \/ viewProcessing # processing
    /\ view' = alerts
    /\ viewProcessing' = processing
    /\ DashboardEffect(alerts)
    /\ last' = Did("render", Undefined, "")
    /\ UNCHANGED <<now, socketVars, storeVars, historyVars, aiLatency, alertsSource,
                   metricsLog, alerts, processing, pending, created, clicks, route,
                   demoVars>>

----------------------------------------------------------------------------
(* AlertCard: the two dispatch buttons.  A card is rendered from view[i]; *)
(* its handlers close over that alert.                                     *)

\* What the awaited fetch of a dispatch request can produce: a body with
\* status "ok", a body with another status, a body res.json() rejects
\* (json === null), or a rejected fetch (the catch block).
Outcomes == {"ok", "failed", "unparseable", "exception"}

\* (alert.responders || 0) + 1
OptimisticResponders(alert) ==
    (IF alert.responders = Undefined THEN 0 ELSE alert.responders) + 1

\* Mutant of CompletionStatus: if (json), so any parsed body acknowledges.
CompletionStatusAnyBody(outcome) ==
    IF outcome \in {"ok", "failed"} THEN "investigating" ELSE "active"

\* if (json && json.status === 'ok') investigating, else / catch: active
CompletionStatus(outcome) ==
    IF outcome = "ok" THEN "investigating" ELSE "active"

Request(alert, action) ==
    [id |-> alert.id, action |-> action, pre |-> alert.responders]

\* Send Response onClick, up to the awaited fetch; a click is a discrete
\* event, so React commits before the handler's caller returns.
ClickSendResponse(i, limit) ==
    /\ route = "/"
    /\ i \in 1..Len(view)
    /\ view[i].id \notin viewProcessing
    /\ clicks < limit
    /\ Len(pending) < MaxInFlight
    /\ LET alert == view[i] IN
        /\ processing' = processing \cup {alert.id}
        /\ alerts' = UpdateAlert(alerts, alert.id,
                        [status |-> "investigating",
                         responders |-> OptimisticResponders(alert)])
        /\ pending' = Append(pending, Request(alert, "dispatch"))
        /\ last' = Did("sendResponse", alert.id, "")
    /\ view' = alerts'
    /\ viewProcessing' = processing'
    /\ DashboardEffect(alerts')
    /\ clicks' = clicks + 1
    /\ UNCHANGED <<now, socketVars, storeVars, historyVars, aiLatency, alertsSource,
                   metricsLog, created, route, demoVars>>

\* Request Ambulance onClick, up to the awaited fetch.
ClickAmbulance(i, limit) ==
    /\ route = "/"
    /\ i \in 1..Len(view)
    /\ clicks < limit
    /\ Len(pending) < MaxInFlight
    /\ LET alert == view[i] IN
        /\ processing' = processing \cup {alert.id}
        /\ pending' = Append(pending, Request(alert, "ambulance"))
        /\ last' = Did("requestAmbulance", alert.id, "")
    /\ view' = alerts
    /\ viewProcessing' = processing'
    /\ DashboardEffect(alerts)
    /\ clicks' = clicks + 1
    /\ UNCHANGED <<now, socketVars, storeVars, historyVars, aiLatency, alertsSource,
                   metricsLog, alerts, created, route, demoVars>>

\* The continuation after the await of either handler, and its finally.
Complete(k, outcome) ==
    /\ k \in 1..Len(pending)
    /\ LET req == pending[k] IN
        /\ alerts' = UpdateAlert(alerts, req.id,
                        [status |-> CompletionStatus(outcome)])
        /\ processing' = processing \ {req.id}
        /\ last' = Did(IF req.action = "dispatch" THEN "completeDispatch"
                                                  ELSE "completeAmbulance",
                       req.id, outcome)
    /\ pending' = RemoveAt(pending, k)
    /\ UNCHANGED <<now, socketVars, telemetryVars, view, viewProcessing, created, clicks, route, demoVars>>

\* The operator resolves an incident: updateAlert(id, { status: 'resolved' }).
ResolveAlert(i) ==
    /\ route = "/"
    /\ i \in 1..Len(view)
    /\ view[i].status # "resolved"
    /\ alerts' = UpdateAlert(alerts, view[i].id, [status |-> "resolved"])
    /\ view' = alerts'
    /\ viewProcessing' = processing
    /\ DashboardEffect(alerts')
    /\ last' = Did("resolve", view[i].id, "")
    /\ UNCHANGED <<now, socketVars, storeVars, historyVars, aiLatency, alertsSource,
                   metricsLog, processing, pending, created, clicks,
                   route, demoVars>>

----------------------------------------------------------------------------
(* Demo page handlers.  The buttons are clicks, so the commit and the    *)
(* effects of [isRunning] (EventSource, polling interval) run with them. *)

DemoAlert(msg) ==
    [id |-> now, type |-> "Accident Detected", confidence |-> msg.confidence,
     severity |-> "critical"]

\* setAlerts(prev => [newAlert, ...prev].slice(0, 10))
AddDemoAlert(prev, newAlert) == Take(<<newAlert>> \o prev, DemoAlertCap)

\* startDemo, then the effects: new EventSource whose onmessage closes over
\* the accidentDetected of this render, and setInterval.
StartDemo ==
    /\ route = "/demo"
    /\ ~isRunning
    /\ isRunning' = TRUE
    /\ currentFrame' = 0
    /\ videoSrc' = [path |-> "current_frame", t |-> Undefined]
    /\ demoAlerts' = <<>>
    /\ accidentDetected' = FALSE
    /\ demoSub' = [open |-> TRUE, accidentDetected |-> accidentDetected']
    /\ last' = Did("startDemo", Undefined, "")
    /\ UNCHANGED <<now, socketVars, telemetryVars, alertVars, route, detectionConfidence, demoStreetlights,
                   demoEnergySavings>>

\* stopDemo, then the effect cleanups: eventSource.close(), clearInterval.
StopDemo ==
    /\ route = "/demo"
    /\ isRunning
    /\ videoSrc' = NoVideo
    /\ isRunning' = FALSE
    /\ demoSub' = NoSubscription
    /\ last' = Did("stopDemo", Undefined, "")
    /\ UNCHANGED <<now, socketVars, telemetryVars, alertVars, route, accidentDetected, currentFrame, demoAlerts,
                   detectionConfidence, demoStreetlights, demoEnergySavings>>

\* resetDemo, then the effect cleanups.
ResetDemo ==
    /\ route = "/demo"
    /\ isRunning' = FALSE
    /\ currentFrame' = 0
    /\ demoAlerts' = <<>>
    /\ videoSrc' = NoVideo
    /\ accidentDetected' = FALSE
    /\ detectionConfidence' = InitialConfidence
    /\ demoStreetlights' = InitialStreetlights
    /\ demoEnergySavings' = InitialEnergySavings
    /\ demoSub' = NoSubscription
    /\ last' = Did("resetDemo", Undefined, "")
    /\ UNCHANGED <<now, socketVars, telemetryVars, alertVars, route>>

\* Mutant of PollingActive: the interval is never cleared.
PollingActiveAlways(running) == TRUE

\* Polling effect: setInterval if (isRunning); its cleanup, run when
\* isRunning changes, is clearInterval.
PollingActive(running) == running

\* The interval callback of the polling effect.
PollTick ==
    /\ route = "/demo"
    /\ PollingActive(isRunning)
    /\ videoSrc' = [path |-> "current_frame", t |-> now]
    /\ last' = Did("pollTick", Undefined, "")
    /\ UNCHANGED <<now, socketVars, telemetryVars, alertVars, route, isRunning, accidentDetected, currentFrame,
                   demoAlerts, detectionConfidence, demoStreetlights,
                   demoEnergySavings, demoSub>>

\* Mutant of ClearsIndicator: every message without a qualifying prediction
\* resets the indicator.
ClearsIndicatorAlways(msg) == TRUE

\* else if (data.prediction)
ClearsIndicator(msg) == msg.prediction # NoPrediction

\* Demo eventSource.onmessage: the whole body is inside try/catch, so a
\* payload that does not parse changes nothing.
OnMessageDemo(msg) ==
    /\ route = "/demo"
    /\ demoSub.open
    /\ currentFrame < MaxFrame
    /\ IF ~msg.parses
         THEN /\ UNCHANGED <<currentFrame, detectionConfidence, demoStreetlights,
                             demoEnergySavings, demoAlerts, accidentDetected>>
              /\ last' = Did("msgDemo", Undefined, "dropped")
         ELSE /\ currentFrame' = currentFrame + 1
              /\ detectionConfidence' =
                    IF msg.confidence # Undefined THEN msg.confidence
                                                  ELSE detectionConfidence
              /\ demoStreetlights' =
                    IF msg.hasStreetlights THEN msg.streetlights ELSE demoStreetlights
              /\ demoEnergySavings' =
                    IF msg.energy_savings # Undefined /\ msg.energy_savings # 0
                      THEN msg.energy_savings ELSE demoEnergySavings
              /\ IF Qualifies(msg)
                   THEN IF ~demoSub.accidentDetected
                          THEN /\ demoAlerts' = AddDemoAlert(demoAlerts, DemoAlert(msg))
                               /\ accidentDetected' = TRUE
                               /\ last' = Did("msgDemo", now, "added")
                          ELSE /\ UNCHANGED <<demoAlerts, accidentDetected>>
                               /\ last' = Did("msgDemo", Undefined, "suppressed")
                   ELSE /\ accidentDetected' =
                             IF ClearsIndicator(msg) THEN FALSE ELSE accidentDetected
                        /\ UNCHANGED demoAlerts
                        /\ last' = Did("msgDemo", Undefined, "ignored")
    /\ UNCHANGED <<now, socketVars, telemetryVars, alertVars, route, isRunning,
                   videoSrc, demoSub>>

\* Mutant of OnErrorDemo: without eventSource.close() the EventSource
\* reconnects by itself.
OnErrorDemoReconnects ==
    /\ route = "/demo"
    /\ demoSub.open
    /\ last' = Did("errorDemo", Undefined, "")
    /\ UNCHANGED <<now, socketVars, telemetryVars, alertVars, route, demoVars>>

\* Demo eventSource.onerror: console.error and eventSource.close(); isRunning
\* is left as it is.
OnErrorDemo ==
    /\ route = "/demo"
    /\ demoSub.open
    /\ demoSub' = [demoSub EXCEPT !.open = FALSE]
    /\ last' = Did("errorDemo", Undefined, "")
    /\ UNCHANGED <<now, socketVars, telemetryVars, alertVars, route, isRunning,
                   accidentDetected, currentFrame, videoSrc, demoAlerts,
                   detectionConfidence, demoStreetlights, demoEnergySavings>>

----------------------------------------------------------------------------
(* Navigation *)

\* SmartCitySidebar "Watch Demo": navigate('/demo'); Demo mounts, the
\* dashboard pages unmount (their EventSources are closed by the effect
\* cleanups and the Dashboard's histories are discarded).
GoToDemo ==
    /\ route = "/"
    /\ route' = "/demo"
    /\ dashboardSource' = "closed"
    /\ alertsSource' = "closed"
    /\ powerHistory' = <<>>
    /\ savingsHistory' = <<>>
    /\ occupancyHistory' = <<>>
    /\ metricsLog' = <<>>
    /\ aiLatency' = InitialLatency
    /\ last' = Did("goToDemo", Undefined, "")
    /\ UNCHANGED <<now, socketVars, storeVars, alertVars, demoVars>>

\* Demo back button: navigate('/'); Demo unmounts (its effects are cleaned
\* up and its state is discarded), the dashboard pages render the store.
GoHome ==
    /\ route = "/demo"
    /\ route' = "/"
    /\ isRunning' = FALSE
    /\ accidentDetected' = FALSE
    /\ currentFrame' = 0
    /\ videoSrc' = NoVideo
    /\ demoAlerts' = <<>>
    /\ detectionConfidence' = InitialConfidence
    /\ demoStreetlights' = InitialStreetlights
    /\ demoEnergySavings' = InitialEnergySavings
    /\ demoSub' = NoSubscription
    /\ view' = alerts
    /\ viewProcessing' = processing
    /\ dashboardSource' = "open"
    /\ alertsSource' = "open"
    /\ last' = Did("goHome", Undefined, "")
    /\ UNCHANGED <<now, socketVars, storeVars, historyVars, aiLatency, metricsLog,
                   alerts, processing, pending, created, clicks>>

Next ==
    \/ \E i \in 1..MaxAlerts : ClickSendResponse(i, MaxDispatch)
    \/ \E i \in 1..MaxAlerts : ClickAmbulance(i, MaxDispatch)
    \/ \E k \in 1..MaxInFlight, outcome \in Outcomes : Complete(k, outcome)
    \/ \E i \in 1..MaxAlerts : ResolveAlert(i)
    \/ ClockTick
    \/ \E msg \in Msgs, seed \in Seeds : OnMessageEA(msg, seed, MaxAlerts)
    \/ \E msg \in Msgs, seed \in Seeds : OnMessageLegacy(msg, seed, MaxAlerts)
    \/ \E msg \in Msgs : OnMessageDashboard(msg, MaxAlerts)
    \/ Render

Spec == Init /\ [][Next]_vars

----------------------------------------------------------------------------
(* The alert windows at their caps: the Demo page is visited first, then *)
(* the dashboard receives a long run of predictions.  The clock advances *)
(* and the operator dispatches while the first alert is the only one, so *)
(* that the request can outlive its alert's stay in the window.          *)

WindowSeeds == {1}
WindowMsgs == { Msg("Accident", 95), Msg("Normal", 95) }

NextWindow ==
    \/ created <= 1 /\ ClockTick
    \/ \E msg \in WindowMsgs, seed \in WindowSeeds :
            OnMessageEA(msg, seed, WindowAlerts)
    \/ \E msg \in WindowMsgs, seed \in WindowSeeds :
            OnMessageLegacy(msg, seed, WindowAlerts)
    \/ Render
    \/ created = 1 /\ ClickSendResponse(1, WindowDispatch)
    \/ created = 1 /\ ClickAmbulance(1, WindowDispatch)
    \/ \E k \in 1..MaxInFlight, outcome \in Outcomes : Complete(k, outcome)
    \/ created = 0 /\ GoToDemo
    \/ GoHome
    \/ StartDemo
    \/ StopDemo
    \/ ResetDemo
    \/ PollTick
    \/ \E msg \in Msgs : OnMessageDemo(msg)

SpecWindow == Init /\ [][NextWindow]_vars

----------------------------------------------------------------------------
(* Telemetry: the Dashboard receives a long run of metrics.  The producer *)
(* numbers its metrics (sim_time); the first ones may carry percentages   *)
(* outside [0,100].  The other subscribers, the stream errors and the     *)
(* Demo page act while the histories are still short.                     *)

Light(id, brightness) == [id |-> id, brightness |-> brightness, status |-> "active"]

Snapshots ==
    { <<>>,
      << Light("L1", 50), Light("L2", 0) >>,
      << Light("L2", 120), Light("L3", -5) >> }

SavingsChoices == {40, 150, -5}

ProducerMetrics(n, savings) ==
    [active_power |-> 300 + n, baseline_100 |-> 1000, baseline_70 |-> 700,
     savings_vs_100 |-> savings, savings_vs_70 |-> savings - 30,
     brightness_dist |-> IF n % 2 = 0 THEN <<>> ELSE <<30, 100, 70>>,
     occupancy |-> n % 4, pedestrians |-> n % 3, vehicles |-> n % 2,
     sim_time |-> n]

Silent == Msg(NoPrediction, Undefined)

LongRun == Len(metricsLog) >= FreePushes

\* The predictions next to the accident test: the threshold itself, no
\* confidence, another class above the threshold.
Unqualified == { Msg("Accident", 90), Msg("Accident", Undefined), Msg("Normal", 95) }

TelemetryMsgs ==
    LET n == Len(metricsLog) + 1
        ms == { ProducerMetrics(n, sav) : sav \in SavingsChoices }
    IN  IF LongRun
          THEN { WithMetrics(Silent, ProducerMetrics(n, 40)) }
          ELSE {Malformed, Msg("Accident", 95), Msg("Normal", 95)} \cup Unqualified
                 \cup { WithStreetlights(Silent, l) : l \in Snapshots }
                 \cup { WithMetrics(Silent, m) : m \in ms }
                 \cup { WithMetrics(WithStreetlights(Msg("Accident", 95), l), m) :
                            l \in Snapshots, m \in ms }

DemoMsgs ==
    {Malformed, Msg("Accident", 95), Msg("Normal", 95),
     WithEnergySavings(Silent, 80), WithEnergySavings(Silent, 0)}
        \cup Unqualified
        \cup { WithStreetlights(Silent, l) : l \in Snapshots }

NextTelemetry ==
    \/ \E msg \in TelemetryMsgs :
            /\ msg.hasMetrics => Len(metricsLog) < MaxPushes
            /\ Qualifies(msg) => created < TelemetryAlerts
            /\ LongRun => aiLatency' = aiLatency \/ aiLatency = InitialLatency
            /\ OnMessageDashboard(msg, TelemetryAlerts + 1)
    \/ \E msg \in {Malformed, Msg("Accident", 95)} \cup Unqualified, seed \in WindowSeeds :
            /\ ~LongRun
            /\ Qualifies(msg) => created < TelemetryAlerts
            /\ OnMessageEA(msg, seed, TelemetryAlerts + 1)
    \/ ~LongRun /\ Render
    \/ ~LongRun /\ OnErrorDashboard
    \/ ~LongRun /\ OnErrorEA
    \/ metricsLog = <<>> /\ created = 0 /\ streetlights = <<>> /\ GoToDemo
    \/ GoHome
    \/ StartDemo
    \/ \E msg \in DemoMsgs : currentFrame < DemoFrames /\ OnMessageDemo(msg)
    \/ OnErrorDemo
    \/ StopDemo

SpecTelemetry == Init /\ [][NextTelemetry]_vars

----------------------------------------------------------------------------
(* The listener registry of WebSocketService and the sockets feeding it. *)

NextSocket ==
    \/ Connect
    \/ \E i \in 1..MaxSockets : OnConnect(i)
    \/ Disconnect
    \/ \E sub \in Subscriptions : CallOn(sub[1], sub[2])
    \/ \E sub \in Subscriptions : CallOff(sub[1], sub[2])
    \/ \E event \in EventNames, audience \in Audiences : Publish(event, audience)
    \/ \E i \in 1..MaxSockets : Deliver(i)

SpecSocket == Init /\ [][NextSocket]_vars

----------------------------------------------------------------------------
(* Properties *)

SubscriberOps == {"msgEA", "msgLegacy", "msgDash"}
AccidentOps == {"msgEA", "msgLegacy"}

\* This step is the onmessage of one of `ops` (the clock is the only
\* action that leaves `last` alone).
MessageStep(ops) == last'.op \in ops /\ now' = now

ActiveAccidents(list) ==
    { i \in 1..Len(list) : list[i].type = "accident" /\ list[i].status = "active" }

OrZero(r) == IF r = Undefined THEN 0 ELSE r

\* C1: the alert list never holds two alerts of type 'accident' that are
\* both 'active'.
C1_AtMostOneActiveAccident == Cardinality(ActiveAccidents(alerts)) <= 1

\* C2: a qualifying prediction handled by EmergencyAlerts while an accident
\* alert is active in the store adds no alert.
C2_DedupSuppressesDuplicate ==
    [][ (MessageStep(AccidentOps) /\ last'.arg # "ignored"
            /\ HasActiveAccident(alerts))
        => alerts' = alerts ]_vars

\* C3: a qualifying prediction handled while no accident alert is active
\* adds exactly one alert, at the front, 'active' and 'critical'.
C3_ScenarioA ==
    [][ (MessageStep(SubscriberOps) /\ last'.arg # "ignored"
            /\ ~HasActiveAccident(alerts))
        => /\ Len(alerts') = Len(alerts) + 1
           /\ Tail(alerts') = alerts
           /\ alerts'[1].status = "active"
           /\ alerts'[1].severity = "critical" ]_vars

\* C4: when a dispatch request has completed, every alert it was issued for
\* is 'investigating' if the response was "ok" and 'active' otherwise.
C4_CompletionSetsStatus ==
    last.op \in {"completeDispatch", "completeAmbulance"}
        => \A i \in 1..Len(alerts) :
              alerts[i].id = last.id
                  => alerts[i].status =
                        (IF last.arg = "ok" THEN "investigating" ELSE "active")

\* C4 witness: a Send Response request has just failed with a network
\* exception and its alert is in the list, back to 'active'.
C4_Witness ==
    /\ last.op = "completeDispatch"
    /\ last.arg = "exception"
    /\ \E i \in 1..Len(alerts) :
          alerts[i].id = last.id /\ alerts[i].status = "active"

\* C5: while a dispatch request is in flight, whatever its action, its alert
\* is 'investigating' with responders one above the value before the call.
C5_OptimisticWhileInFlight ==
    \A k \in 1..Len(pending) : \A i \in 1..Len(alerts) :
        alerts[i].id = pending[k].id
            => /\ alerts[i].status = "investigating"
               /\ alerts[i].responders = OrZero(pending[k].pre) + 1

\* C6: after a Send Response request fails or throws, its alert is 'active'
\* and its responders count is the value before the call plus one.
C6_FailureKeepsIncrement ==
    [][ \A k \in 1..Len(pending) :
          (/\ last'.op = "completeDispatch"
           /\ last'.arg # "ok"
           /\ pending[k].action = "dispatch"
           /\ pending[k].id = last'.id
           /\ pending' = RemoveAt(pending, k))
          => \A i \in 1..Len(alerts') :
                alerts'[i].id = last'.id
                    => /\ alerts'[i].status = "active"
                       /\ alerts'[i].responders = OrZero(pending[k].pre) + 1 ]_vars

\* The status moves the alert state machine allows.
AllowedMove(from, to) ==
    \/ from = to
    \/ from = "active" /\ to = "investigating"
    \/ from = "investigating" /\ to = "active"
    \/ from \in {"active", "investigating"} /\ to = "resolved"

\* C7: an alert is created 'active', its status only moves
\* active -> investigating, investigating -> active or to 'resolved', and a
\* resolved alert keeps that status whatever handler runs.
C7_StatusMachine ==
    [][ \A j \in 1..Len(alerts') :
          IF \E i \in 1..Len(alerts) : alerts[i].seq = alerts'[j].seq
            THEN \A i \in 1..Len(alerts) :
                    alerts[i].seq = alerts'[j].seq
                        => AllowedMove(alerts[i].status, alerts'[j].status)
            ELSE alerts'[j].status = "active" ]_vars

\* What an insertion at the front keeps of a list capped at `cap`.
KeepOnInsert(list, cap) ==
    IF Len(list) < cap THEN list ELSE SubSeq(list, 1, cap - 1)

NewestFirst(list) ==
    \A i \in 1..(Len(list) - 1) : list[i].seq > list[i + 1].seq

SharedInsertion ==
    MessageStep(SubscriberOps) /\ last'.arg = "added" /\ created' = created + 1

DemoInsertion ==
    MessageStep({"msgDemo"}) /\ last'.arg = "added"
        /\ currentFrame' = currentFrame + 1

\* C8: both alert lists stay within their caps (20 shared, 10 demo), the
\* shared list is ordered newest first, and an insertion puts the new alert
\* at index 0 and drops only the last entry, and only at the cap.
C8_CappedNewestFirst ==
    [][ /\ Len(alerts') <= AlertCap
        /\ Len(demoAlerts') <= DemoAlertCap
        /\ NewestFirst(alerts')
        /\ SharedInsertion
             => /\ alerts'[1].seq = created'
                /\ alerts'[1].id = now
                /\ Tail(alerts') = KeepOnInsert(alerts, AlertCap)
        /\ DemoInsertion
             => /\ demoAlerts'[1].id = now
                /\ Tail(demoAlerts') = KeepOnInsert(demoAlerts, DemoAlertCap) ]_vars

\* C8 witness: the shared list is full and an insertion has just pushed the
\* oldest alert out.
C8_Witness ==
    /\ last.op \in AccidentOps
    /\ last.arg = "added"
    /\ Len(alerts) = AlertCap
    /\ created > AlertCap
    /\ alerts[1].seq = created

\* Every alert of the shared list is still in it after the step, unless it
\* was the last entry of a full list and the step inserted an alert.
SharedKept ==
    \A i \in 1..Len(alerts) :
        \/ \E j \in 1..Len(alerts') : alerts'[j].seq = alerts[i].seq
        \/ /\ i = Len(alerts)
           /\ Len(alerts) = AlertCap
           /\ SharedInsertion

\* The same for the Demo page's list.
DemoKept ==
    \/ demoAlerts' = demoAlerts
    \/ /\ DemoInsertion
       /\ Tail(demoAlerts') = KeepOnInsert(demoAlerts, DemoAlertCap)

\* C10: an alert leaves its list only as the oldest entry evicted by an
\* insertion at the cap; update, dispatch and the demo's start, stop and
\* reset remove nothing.  (Leaving the Demo page unmounts it.)
C10_NeverDeleted ==
    [][ SharedKept /\ (DemoKept \/ last'.op = "goHome") ]_vars

\* C10 as amended: the shared list loses alerts only by eviction at the cap;
\* the Demo page's list is also emptied by startDemo and resetDemo, and
\* by nothing else.
C10_EvictedOrCleared ==
    [][ /\ SharedKept
        /\ \/ DemoKept
           \/ /\ demoAlerts' = <<>>
              /\ last'.op \in {"startDemo", "resetDemo", "goHome"} ]_vars

\* C10 witness: a dispatch completion has just updated a full shared list
\* that has already evicted alerts.
C10_Witness ==
    /\ last.op \in {"completeDispatch", "completeAmbulance"}
    /\ Len(alerts) = AlertCap
    /\ created > AlertCap

\* C9: no two alerts carry the same id.
C9_UniqueIds ==
    \A i, j \in 1..Len(alerts) : i # j => alerts[i].id # alerts[j].id

----------------------------------------------------------------------------
(* Properties of the store's update, the histories and the snapshot *)

CompletionOps == {"completeDispatch", "completeAmbulance"}

\* C11: updateAlert with an id no alert carries changes nothing; so the
\* completion of a dispatch whose alert has been evicted from the window
\* leaves the list as it is.  (Every dispatch of SpecWindow is issued for
\* the first alert created.)
C11_EvictedCompletionNoOp ==
    [][ (/\ last'.op \in CompletionOps
         /\ Len(pending') = Len(pending) - 1
         /\ \A i \in 1..Len(alerts) : alerts[i].seq # 1)
        => alerts' = alerts ]_vars

Min(a, b) == IF a < b THEN a ELSE b

\* The points F makes of the last min(N, cap) metrics values ingested.
LatestPoints(cap, F(_)) ==
    LET N == Len(metricsLog)
        L == Min(N, cap)
    IN  [i \in 1..L |-> F(metricsLog[N - L + i])]

PowerOf(entry) == PowerPoint(entry.metrics, entry.time)
SavingsOf(entry) == SavingsPoint(entry.metrics, entry.time)
OccupancyOf(entry) == OccupancyPoint(entry.metrics)

\* C12: after N metrics events each history holds the points of the last
\* min(N, C) events, in arrival order (C = 20 for power and savings, 50
\* for occupancy).
C12_HistoriesHoldLatest ==
    /\ powerHistory = LatestPoints(HistoryCap, PowerOf)
    /\ savingsHistory = LatestPoints(HistoryCap, SavingsOf)
    /\ occupancyHistory = LatestPoints(OccupancyCap, OccupancyOf)

\* C12 witness: more metrics events than the larger capacity have arrived
\* and both kinds of history are full.
C12_Witness ==
    /\ Len(metricsLog) > OccupancyCap
    /\ Len(occupancyHistory) = OccupancyCap
    /\ Len(powerHistory) = HistoryCap
    /\ powerHistory[1].active = metricsLog[Len(metricsLog) - HistoryCap + 1].metrics.active_power

Last(seq) == seq[Len(seq)]

\* seq with one entry added at the end, the oldest dropped if need be.
GrownByOne(before, after, cap) ==
    /\ Len(after) = Min(Len(before) + 1, cap)
    /\ \A i \in 1..(Len(after) - 1) :
          after[i] = before[Len(before) - (Len(after) - 1) + i]

\* C13: a message with metrics sets the metrics slot to it and adds one
\* point made of it to each history; the power and savings histories
\* have equal length and their i-th points carry the same time label.
C13_MetricsFanOut ==
    [][ /\ Len(metricsLog') = Len(metricsLog) + 1
          => LET m == Last(metricsLog').metrics IN
             /\ metrics' = m
             /\ GrownByOne(powerHistory, powerHistory', HistoryCap)
             /\ GrownByOne(savingsHistory, savingsHistory', HistoryCap)
             /\ GrownByOne(occupancyHistory, occupancyHistory', OccupancyCap)
             /\ Last(powerHistory').active = m.active_power
             /\ Last(powerHistory').base100 = m.baseline_100
             /\ Last(powerHistory').base70 = m.baseline_70
             /\ Last(savingsHistory').sav100 = m.savings_vs_100
             /\ Last(savingsHistory').sav70 = m.savings_vs_70
             /\ Last(occupancyHistory').y = m.occupancy
             /\ Last(occupancyHistory').x = AvgBrightness(m.brightness_dist)
        /\ Len(metricsLog') # Len(metricsLog) + 1
          => (route' # route \/ UNCHANGED <<metrics, historyVars>>)
        /\ Len(powerHistory') = Len(savingsHistory')
        /\ \A i \in 1..Len(powerHistory') :
              powerHistory'[i].time = savingsHistory'[i].time ]_vars

\* C13 witness: a message with metrics and streetlights has been ingested
\* while the histories already held a point.
C13_Witness ==
    /\ last.op = "msgDash"
    /\ Len(metricsLog) = FreePushes
    /\ metrics = Last(metricsLog).metrics
    /\ metrics.savings_vs_100 = 150
    /\ Len(savingsHistory) = FreePushes
    /\ streetlights # <<>>

\* C14: a message with a streetlights field makes the stored streetlights
\* equal to that sequence whatever was stored before, and applying the
\* same sequence again changes nothing.
C14_SnapshotReplaces ==
    [][ /\ \A msg \in TelemetryMsgs :
              (/\ msg.parses
               /\ msg.hasStreetlights
               /\ OnMessageDashboard(msg, TelemetryAlerts + 1))
              => streetlights' = msg.streetlights
        /\ \A l \in Snapshots :
              SetStreetlights(SetStreetlights(streetlights, l), l)
                  = SetStreetlights(streetlights, l) ]_vars

\* C14 witness: the Dashboard has stored the snapshot that lists L2 and L3
\* only, after other messages.
C14_Witness ==
    /\ last.op = "msgDash"
    /\ streetlights = << Light("L2", 120), Light("L3", -5) >>
    /\ Len(metricsLog) = 1
    /\ aiLatency = MaxLatency

InRange(x) == 0 <= x /\ x <= 100

\* C15: every stored brightness and every stored percentage (savings_vs_100,
\* savings_vs_70, energySavings) lies in [0, 100].
C15_PercentagesInRange ==
    /\ \A i \in 1..Len(streetlights) : InRange(streetlights[i].brightness)
    /\ InRange(metrics.savings_vs_100)
    /\ InRange(metrics.savings_vs_70)
    /\ InRange(energySavings)

\* C16: a payload that does not parse is dropped inside the handler: no
\* exception leaves it, no store or history value changes and the
\* subscriptions stay open.
C16_MalformedDropped ==
    [][ last'.arg \in {"threw", "dropped"}
        => /\ last'.arg = "dropped"
           /\ UNCHANGED <<alerts, storeVars, historyVars, dashboardSource,
                          alertsSource, demoAlerts, demoStreetlights,
                          demoEnergySavings, demoSub>> ]_vars

CarriesPrediction(msg) == msg.prediction # NoPrediction

\* C17: a message changes only the state of the fields it carries.
\* Dashboard: without metrics, the metrics slot, energySavings and the
\* histories stay; without streetlights, the streetlights stay; without a
\* prediction, the alerts stay.  Demo: the same for its streetlights,
\* energy savings, confidence and alerts.
C17_FrameOfPartialMessage ==
    [][ /\ \A msg \in TelemetryMsgs :
              (msg.parses /\ OnMessageDashboard(msg, TelemetryAlerts + 1))
              => /\ ~msg.hasMetrics
                      => UNCHANGED <<metrics, energySavings, historyVars>>
                 /\ ~msg.hasStreetlights => UNCHANGED streetlights
                 /\ ~CarriesPrediction(msg) => UNCHANGED alerts
        /\ \A msg \in DemoMsgs :
              (msg.parses /\ OnMessageDemo(msg))
              => /\ ~msg.hasStreetlights => UNCHANGED demoStreetlights
                 /\ msg.energy_savings = Undefined => UNCHANGED demoEnergySavings
                 /\ msg.confidence = Undefined => UNCHANGED detectionConfidence
                 /\ ~CarriesPrediction(msg)
                      => UNCHANGED <<demoAlerts, accidentDetected>> ]_vars

\* C17 witness: after a metrics message, a message with streetlights only
\* has been handled by the Dashboard.
C17_Witness ==
    /\ last.op = "msgDash"
    /\ last.arg = "ignored"
    /\ Len(metricsLog) = 1
    /\ metrics = metricsLog[1].metrics
    /\ streetlights = << Light("L1", 50), Light("L2", 0) >>
    /\ alerts = <<>>

\* What a renderer reads from the store.
StoreView == <<streetlights, alerts, energySavings, metrics>>

\* C18: when a stream errors and is closed, the store shows it: some value
\* a renderer reads changes.
C18_DisconnectObservable ==
    [][ (/\ route' = "/"
         /\ \/ dashboardSource = "open" /\ dashboardSource' = "closed"
            \/ alertsSource = "open" /\ alertsSource' = "closed")
        => StoreView' # StoreView ]_vars

\* C19: a delivered event reaches every callback that is subscribed to its
\* type (added by on() and not removed since) and no other callback: off()
\* takes away its own callback only, and a removed callback is not called.
C19_UnsubscribeIsolated ==
    [][ last'.op = "deliver"
        => LET ev == [type |-> last'.arg, n |-> last'.id] IN
           \A cb \in Callbacks :
              received'[cb] = IF cb \in subscribed[ev.type]
                                THEN Append(received[cb], ev)
                                ELSE received[cb] ]_vars

\* C19 witness: "a" got the first event and was removed before the second,
\* which "b" still got.
C19_Witness ==
    /\ last.op = "deliver"
    /\ Len(sockets) = 1
    /\ received["a"] = << [type |-> "accident_detected", n |-> 1] >>
    /\ received["b"] = << [type |-> "accident_detected", n |-> 1],
                          [type |-> "accident_detected", n |-> 2] >>
    /\ "a" \notin subscribed["accident_detected"]
    /\ "b" \in subscribed["accident_detected"]

\* C20: each callback is invoked in publish order: an event is never
\* delivered to it after an event the server emitted later.
C20_PublishOrder ==
    \A cb \in Callbacks : \A i, j \in 1..Len(received[cb]) :
        i < j => received[cb][i].n <= received[cb][j].n

----------------------------------------------------------------------------
(* Properties of the listener registry under failures and reconnection *)

\* C21: when a callback registered for the delivered event throws, every
\* callback registered for the event is still called with it, the socket's
\* handler returns (the sockets stay as they are) and the registry keeps
\* every callback that did not remove itself, so later events reach them.
C21_ThrowingListenerIsolated ==
    [][ (/\ last'.op = "deliver"
         /\ \E t \in Members(listeners[last'.arg]) : Throws(t))
        => LET ev == [type |-> last'.arg, n |-> last'.id]
               set == Members(listeners[ev.type])
           IN  /\ \A cb \in set : received'[cb] = Append(received[cb], ev)
               /\ Members(listeners'[ev.type]) = { cb \in set : ~RemovesItself(cb) }
               /\ \A i \in 1..Len(sockets) : sockets'[i].state = sockets[i].state ]_vars

\* C21 witness: "b", which throws, is called before "a"; both have been
\* called with the two events.
C21_Witness ==
    /\ last.op = "deliver"
    /\ Len(sockets) = 1
    /\ listeners["accident_detected"] = <<"b", "a">>
    /\ received["a"] = << [type |-> "accident_detected", n |-> 1],
                          [type |-> "accident_detected", n |-> 2] >>
    /\ received["b"] = received["a"]

\* The newest `depth` entries of a mailbox.
KeepNewest(mailbox, depth) ==
    SubSeq(mailbox, IF Len(mailbox) > depth THEN Len(mailbox) - depth + 1 ELSE 1,
           Len(mailbox))

LiveSockets == { i \in 1..Len(sockets) : sockets[i].state # "closed" }

\* C29: at most one socket feeds the registry, and no callback is called
\* twice with the same event.
C29_OneSocketOnce ==
    /\ Cardinality(LiveSockets) <= 1
    /\ \A cb \in Callbacks : \A i, j \in 1..Len(received[cb]) :
          i # j => received[cb][i].n # received[cb][j].n

----------------------------------------------------------------------------
(* Properties of the accident test and of the Demo page's indicator *)

MeetsAccidentTest(msg) ==
    /\ msg.prediction = "Accident"
    /\ msg.confidence \in Nat
    /\ msg.confidence > 90

\* C23: a Demo message whose prediction meets the accident test sets the
\* indicator, one whose prediction does not meet it clears the indicator, a
\* message without a prediction leaves it as it is; between messages the
\* indicator only changes by being cleared when a run starts, on reset and
\* when the page is left.
C23_IndicatorFollowsLatestPrediction ==
    [][ /\ \A msg \in Msgs :
              OnMessageDemo(msg)
                => accidentDetected' =
                      IF MeetsAccidentTest(msg) THEN TRUE
                      ELSE IF msg.prediction # NoPrediction THEN FALSE
                      ELSE accidentDetected
        /\ last'.op # "msgDemo"
              => \/ accidentDetected' = accidentDetected
                 \/ /\ ~accidentDetected'
                    /\ last'.op \in {"startDemo", "resetDemo", "goHome"} ]_vars

\* C23 witness: the indicator was set and a message without a prediction
\* (the only one that carries no confidence and keeps the alert) left it set.
C23_Witness ==
    /\ accidentDetected
    /\ last = Did("msgDemo", Undefined, "ignored")
    /\ demoSub.open
    /\ currentFrame >= 3

\* C24: a message handled by the Dashboard, by EmergencyAlerts or by the
\* Demo page whose prediction is not "Accident" with a confidence above 90
\* adds nothing to the shared alert list or to the Demo list.
C24_OnlyQualifyingCreates ==
    [][ \A msg \in TelemetryMsgs \cup DemoMsgs \cup Unqualified :
          ( /\ ~MeetsAccidentTest(msg)
            /\ \/ OnMessageDashboard(msg, TelemetryAlerts + 1)
               \/ \E seed \in WindowSeeds : OnMessageEA(msg, seed, TelemetryAlerts + 1)
               \/ OnMessageDemo(msg) )
          => UNCHANGED <<alerts, demoAlerts>> ]_vars

\* C24 witness: the Demo page has handled "Accident" at confidence 90 and
\* its list is empty.
C24_Witness ==
    /\ last = Did("msgDemo", Undefined, "ignored")
    /\ detectionConfidence = ConfidenceThreshold
    /\ ~accidentDetected
    /\ demoAlerts = <<>>

\* C25: while the indicator is set, a qualifying prediction adds no alert to
\* the Demo list.
C25_FirstDetectionOnly ==
    [][ \A msg \in Msgs :
          (accidentDetected /\ MeetsAccidentTest(msg) /\ OnMessageDemo(msg))
            => demoAlerts' = demoAlerts ]_vars

----------------------------------------------------------------------------
(* Properties of the dispatch requests in flight *)

InFlight(id, action) ==
    { k \in 1..Len(pending) : pending[k].id = id /\ pending[k].action = action }

\* C26: a card has at most one Send Response in flight, its processing flag
\* is set while any of its requests is pending and clear once none is.
C26_ProcessingCoversPending ==
    /\ \A k \in 1..Len(pending) :
          /\ Cardinality(InFlight(pending[k].id, "dispatch")) <= 1
          /\ pending[k].id \in processing
    /\ \A id \in processing : \E k \in 1..Len(pending) : pending[k].id = id

\* C27: the shared list never holds two alerts of type 'Accident Detected'.
C27_OneAccidentDetected ==
    Cardinality({ i \in 1..Len(alerts) : alerts[i].type = "Accident Detected" }) <= 1

----------------------------------------------------------------------------
(* Properties of the subscriptions after an error and after a stop *)

Commits == {"render", "resolve", "sendResponse", "requestAmbulance"}

\* C28: an error closes the subscription it is reported on; while a
\* subscription stays closed no step changes what its messages feed; a
\* closed subscription is opened again only by its effect running: a commit
\* that changed the alerts or a mount for the Dashboard, a mount for
\* EmergencyAlerts, startDemo for the Demo page.
C28_ClosedAfterError ==
    [][ /\ last'.op = "errorDash" => dashboardSource' = "closed"
        /\ last'.op = "errorEA" => alertsSource' = "closed"
        /\ last'.op = "errorDemo" => ~demoSub'.open
        /\ (route' = "/" /\ dashboardSource = "closed" /\ dashboardSource' = "closed")
              => UNCHANGED <<streetlights, metrics, energySavings, historyVars>>
        /\ (route' = "/" /\ dashboardSource = "closed" /\ dashboardSource' = "closed"
               /\ alertsSource = "closed" /\ alertsSource' = "closed")
              => UNCHANGED alerts
        /\ (route' = "/demo" /\ ~demoSub.open /\ ~demoSub'.open /\ last'.op # "resetDemo")
              => UNCHANGED <<currentFrame, demoAlerts, accidentDetected,
                             detectionConfidence, demoStreetlights, demoEnergySavings>>
        /\ (dashboardSource = "closed" /\ dashboardSource' = "open")
              => \/ last'.op = "goHome"
                 \/ last'.op \in Commits /\ view' # view
        /\ (alertsSource = "closed" /\ alertsSource' = "open") => last'.op = "goHome"
        /\ (~demoSub.open /\ demoSub'.open) => last'.op = "startDemo" ]_vars

\* C28 witness: the Demo run goes on after an error closed its subscription.
C28_Witness ==
    /\ route = "/demo"
    /\ isRunning
    /\ ~demoSub.open
    /\ currentFrame > 0
    /\ last.op = "errorDemo"

\* C28 witness on the dashboard: EmergencyAlerts added an alert after the
\* Dashboard's subscription was closed by an error.
C28_DashboardClosed ==
    /\ route = "/"
    /\ dashboardSource = "closed"
    /\ last.op = "msgEA"
    /\ last.arg = "added"

\* C30: while the demo is not running the video source is empty, and the
\* frame counter, the alerts and the streetlights change only by being reset.
C30_StoppedStaysStopped ==
    [][ /\ ~isRunning' => videoSrc' = NoVideo
        /\ (~isRunning /\ ~isRunning' /\ last'.op \notin {"resetDemo", "goHome"})
              => UNCHANGED <<currentFrame, demoAlerts, demoStreetlights>> ]_vars

\* C30 witness: a run that showed frames and raised an alert was stopped.
C30_Witness ==
    /\ last.op = "stopDemo"
    /\ ~isRunning
    /\ videoSrc = NoVideo
    /\ currentFrame > 0
    /\ demoAlerts # <<>>

====
